---------------------------- MODULE Spec2Model ----------------------------
(***************************************************************************)
(* A model of JavaScriptCore's UnlinkedCodeBlock                           *)
(* (bytecode/UnlinkedCodeBlock.cpp): the source-position lookup, the       *)
(* exception-handler lookup, the lazily built liveness analysis and the    *)
(* collector's visit.                                                      *)
(*                                                                         *)
(* Three specifications share the module, one per group of operations:     *)
(*   SpecRange    expressionRangeForBytecodeIndex over every small table   *)
(*   SpecHandler  handlerForIndex / handlerForBytecodeIndex                *)
(*   SpecThreads  threads calling livenessAnalysis and visitChildren       *)
(***************************************************************************)
EXTENDS Integers, Sequences, FiniteSets, TLC

VARIABLES
    \* ---- source-position lookup ----
    m_expressionInfo,   \* the source-position table (code index i is [i + 1])
    rangePc,            \* position inside expressionRangeForBytecodeIndex
    bytecodeOffset,     \* bytecodeIndex.offset() of the query in progress
    low, high,          \* the binary search's locals
    probed,             \* code indices of the table entries read by the query
    out,                \* the out-parameters divot, startOffset, endOffset, line, column
    \* ---- exception-handler lookup ----
    m_rareData,         \* TRUE when the block has rare data (m_rareData non-null)
    m_exceptionHandlers,\* m_rareData->m_exceptionHandlers (empty without rare data)
    handlerCall,        \* the entry point of the last lookup, "none" before any
    handlerIndex,       \* the index the last lookup asked about
    requiredHandler,    \* the RequiredHandler the last lookup asked for
    handlerResult,      \* what it returned: a table position, or Null for nullptr
    failFast,           \* TRUE once a lookup has crashed instead of returning
    \* ---- threads: livenessAnalysis and visitChildren ----
    pc,                 \* each thread's position
    m_lock,             \* holder of m_lock, NoThread when free
    cellLock,           \* holder of the cell lock, NoThread when free
    m_liveness,         \* the liveness pointer as stored: Null or an analysis
    analyses,           \* BytecodeLivenessAnalysis objects constructed so far
    published,          \* the builder's stores that threads not holding m_lock see
    local,              \* per thread: the analysis its call in progress has made
    result,             \* per thread: the reference its last livenessAnalysis gave
    sawPartial,         \* TRUE once a caller has read an analysis not yet complete to it
    isFirstVisit,       \* per thread: visitor.isFirstVisit() of its visit
    m_age,              \* the age counter
    firstVisits,        \* first-visits made so far
    repeatVisited,      \* TRUE once a repeat-visit has been made
    \* ---- line/column encoding ----
    m_expressionInfoFatPositions, \* m_rareData->m_expressionInfoFatPositions
    codecInfo,          \* entries whose line and column have been encoded
    encodedFrom,        \* per entry of codecInfo: the <<line, column>> given to the encoder
    decoded,            \* the last getLineAndColumn call: entry asked about, line, column
    \* ---- what the block owns, and its memory accounting ----
    m_functionDecls,    \* function-declaration sub-templates
    m_functionExprs,    \* function-expression sub-templates
    m_constantRegisters,\* constant values
    m_metadata,         \* the metadata table: [sizeInBytes |-> n]
    m_instructions,     \* the instruction stream: Null or [sizeInBytes |-> n]
    appended,           \* per thread: what its visit in progress has appended to the visitor
    extraMemoryVisited, \* per thread: what its visit in progress has reported, or NotReported
    estimated,          \* what the last estimatedSize call returned, or NotReported
    \* ---- out-of-line jump targets and type-profiler ranges ----
    assertionsEnabled,  \* TRUE in a build that compiles ASSERT in
    m_outOfLineJumpTargets, \* the jump table: offset -> target
    m_typeProfilerInfoMap,  \* m_rareData->m_typeProfilerInfoMap (empty without rare data)
    mapCall,            \* the lookup in progress: operation and offset, or NoMapCall
    mapResult,          \* what it returned and wrote to its out-parameters
    mapCrashed,         \* TRUE once a lookup has crashed instead of returning
    \* ---- the parser (kjs/Parser.cpp, kjs/Parser.h) ----
    m_source,           \* Parser::m_source: Null or a source
    m_sourceElements,   \* Parser::m_sourceElements: Null or source elements
    m_varDeclarations,  \* Parser::m_varDeclarations: Null or a variable stack
    m_funcDeclarations, \* Parser::m_funcDeclarations: Null or a function stack
    m_lastLine,         \* Parser::m_lastLine
    parserPc,           \* position inside the call in progress
    parserCall,         \* the call in progress or last completed: its kind and arguments
    parserDone,         \* TRUE when the call of parserCall has completed
    errLine, errMsg,    \* what the caller's *errLine and *errMsg hold
    parseError, lexError, \* Parser::parse's locals
    lexerLineNo,        \* lexer.lineNo()
    finished,           \* the didFinishParsing call of the parse in progress, if any
    parsedNode,         \* the node returned by parse<>, or filled in by reparse
    parserCrashed       \* TRUE once an assertion of the parser has failed

rangeVars == <<m_expressionInfo, rangePc, bytecodeOffset, low, high, probed, out>>

handlerVars == <<m_rareData, m_exceptionHandlers, handlerCall, handlerIndex,
                 requiredHandler, handlerResult, failFast>>

threadVars == <<pc, m_lock, cellLock, m_liveness, analyses, published, local, result,
                sawPartial, isFirstVisit, m_age, firstVisits, repeatVisited>>

codecVars == <<m_expressionInfoFatPositions, codecInfo, encodedFrom, decoded>>

blockVars == <<m_functionDecls, m_functionExprs, m_constantRegisters, m_metadata,
               m_instructions>>

visitorVars == <<appended, extraMemoryVisited>>

mapVars == <<assertionsEnabled, m_outOfLineJumpTargets, m_typeProfilerInfoMap, mapCall,
             mapResult, mapCrashed>>

parserVars == <<m_source, m_sourceElements, m_varDeclarations, m_funcDeclarations,
                m_lastLine, parserPc, parserCall, parserDone, errLine, errMsg, parseError,
                lexError, lexerLineNo, finished, parsedNode, parserCrashed>>

vars == <<rangeVars, handlerVars, threadVars, codecVars, blockVars, visitorVars,
          estimated, mapVars, parserVars>>

\* What the actions of one group of operations leave alone.
notRange == <<handlerVars, threadVars, codecVars, blockVars, visitorVars, estimated,
              mapVars, parserVars>>
notHandler == <<rangeVars, threadVars, codecVars, blockVars, visitorVars, estimated,
                mapVars, parserVars>>
notThreads == <<rangeVars, handlerVars, codecVars, blockVars, estimated, mapVars,
                parserVars>>
notCodec == <<rangeVars, handlerVars, threadVars, blockVars, visitorVars, estimated,
              mapVars, parserVars>>
notMaps == <<rangeVars, handlerVars, threadVars, codecVars, blockVars, visitorVars,
             estimated, parserVars>>
notParser == <<rangeVars, handlerVars, threadVars, codecVars, blockVars, visitorVars,
               estimated, mapVars>>

-----------------------------------------------------------------------------
(* Bounds of the model. *)

\* Longest source-position table.
MaxEntries == 3
\* Greatest instruction offset; the instruction stream has MaxOffset + 1 offsets.
MaxOffset == 4
\* Longest exception-handler table.
MaxHandlers == 2
\* Greatest offset a handler range starts at.
MaxHandlerOffset == 3
\* Threads that use the block (compiler threads and collector threads).
NumThreads == 2
\* First-visits the collector makes.
MaxFirstVisits == 9
\* Entries given to the line/column encoder.
MaxEncoded == 2
\* Greatest offset of a jump or of a profiled expression.
MaxJumpOffset == 3

-----------------------------------------------------------------------------
(* ExpressionRangeInfo and its line/column decoding. *)

FatLineMode == "FatLineMode"
FatColumnMode == "FatColumnMode"
FatLineAndColumnMode == "FatLineAndColumnMode"

\* Bit layout of ExpressionRangeInfo::position.
FatLineModeLineShift == 12
FatColumnModeLineShift == 20

Pow2(n) == 2 ^ n

\* position is an unsigned 32-bit field: it is held as its two 16-bit halves,
\* so that a line of 20 bits above a column of 12 bits fills it exactly.
HalfBits == 16

Word(v) == [hi |-> (v \div Pow2(HalfBits)) % Pow2(HalfBits), lo |-> v % Pow2(HalfBits)]

\* (a << shift) | b in 32 bits, for b below 2^shift.
ShiftLeftOr(a, shift, b) ==
    IF shift <= HalfBits
      THEN [hi |-> (a \div Pow2(HalfBits - shift)) % Pow2(HalfBits),
            lo |-> ((a % Pow2(HalfBits - shift)) * Pow2(shift)) + b]
      ELSE [hi |-> ((a * Pow2(shift - HalfBits)) % Pow2(HalfBits)) + (b \div Pow2(HalfBits)),
            lo |-> b % Pow2(HalfBits)]

\* w >> shift.
ShiftRight(w, shift) ==
    IF shift <= HalfBits
      THEN (w.hi * Pow2(HalfBits - shift)) + (w.lo \div Pow2(shift))
      ELSE w.hi \div Pow2(shift - HalfBits)

\* w & ((1 << bits) - 1).
LowBits(w, bits) ==
    IF bits <= HalfBits
      THEN w.lo % Pow2(bits)
      ELSE ((w.hi % Pow2(bits - HalfBits)) * Pow2(HalfBits)) + w.lo

\* Greatest line and column of each inline layout.
MaxFatLineModeLine == Pow2(32 - FatLineModeLineShift) - 1
MaxFatLineModeColumn == Pow2(FatLineModeLineShift) - 1
MaxFatColumnModeLine == Pow2(32 - FatColumnModeLineShift) - 1
MaxFatColumnModeColumn == Pow2(FatColumnModeLineShift) - 1

\* ExpressionRangeInfo::encodeFatLineMode: (line & mask) << shift | (column & mask).
encodeFatLineMode(line, column) ==
    ShiftLeftOr(line % (MaxFatLineModeLine + 1), FatLineModeLineShift,
                column % (MaxFatLineModeColumn + 1))

\* ExpressionRangeInfo::encodeFatColumnMode.
encodeFatColumnMode(line, column) ==
    ShiftLeftOr(line % (MaxFatColumnModeLine + 1), FatColumnModeLineShift,
                column % (MaxFatColumnModeColumn + 1))

\* ExpressionRangeInfo::decodeFatLineMode: line in the high bits, column in
\* the low FatLineModeLineShift bits.
decodeFatLineMode(position) ==
    << ShiftRight(position, FatLineModeLineShift) % (MaxFatLineModeLine + 1),
       LowBits(position, FatLineModeLineShift) >>

\* ExpressionRangeInfo::decodeFatColumnMode: line in the high bits, column in
\* the low FatColumnModeLineShift bits.
decodeFatColumnMode(position) ==
    << ShiftRight(position, FatColumnModeLineShift) % (MaxFatColumnModeLine + 1),
       LowBits(position, FatColumnModeLineShift) >>

\* A side table of two pairs (code index i is [i + 1]).
SampleFatPositions ==
    << [line |-> 1100000, column |-> 1200000], [line |-> 1300000, column |-> 1400000] >>

\* What a read outside the side table's storage yields: no pair of the table.
OutsideFatPositions == [line |-> 999, column |-> 999]

\* m_rareData->m_expressionInfoFatPositions[fatIndex].
FatPositionAt(fatIndex) ==
    IF fatIndex.hi = 0 /\ fatIndex.lo < Len(m_expressionInfoFatPositions)
      THEN m_expressionInfoFatPositions[fatIndex.lo + 1]
      ELSE OutsideFatPositions

\* getLineAndColumn with the two inline decoders exchanged.
getLineAndColumnExchanged(info, line, column) ==
    CASE info.mode = FatLineMode -> decodeFatColumnMode(info.position)
      [] info.mode = FatColumnMode -> decodeFatLineMode(info.position)
      [] info.mode = FatLineAndColumnMode ->
            LET fatIndex == info.position
                fatPos == FatPositionAt(fatIndex)
            IN  << fatPos.line, fatPos.column >>
      [] OTHER -> << line, column >>

\* getLineAndColumn(info, line, column): the switch assigns line and column
\* in its three cases and leaves the caller's values alone otherwise.
getLineAndColumn(info, line, column) ==
    CASE info.mode = FatLineMode -> decodeFatLineMode(info.position)
      [] info.mode = FatColumnMode -> decodeFatColumnMode(info.position)
      [] info.mode = FatLineAndColumnMode ->
            LET fatIndex == info.position
                fatPos == FatPositionAt(fatIndex)
            IN  << fatPos.line, fatPos.column >>
      [] OTHER -> << line, column >>

\* The source data an entry can carry (divot, range and encoded position):
\* one entry per decoding mode, and a second of the first mode.
Payloads ==
    { [divotPoint |-> 10, startOffset |-> 2, endOffset |-> 4,
       mode |-> FatLineMode, position |-> encodeFatLineMode(3, 5)],
      [divotPoint |-> 20, startOffset |-> 1, endOffset |-> 6,
       mode |-> FatColumnMode, position |-> encodeFatColumnMode(2, 9)],
      [divotPoint |-> 30, startOffset |-> 3, endOffset |-> 3,
       mode |-> FatLineAndColumnMode, position |-> Word(1)],
      [divotPoint |-> 40, startOffset |-> 5, endOffset |-> 7,
       mode |-> FatLineMode, position |-> encodeFatLineMode(8, 1)] }

Entry(off, p) ==
    [instructionOffset |-> off, divotPoint |-> p.divotPoint,
     startOffset |-> p.startOffset, endOffset |-> p.endOffset,
     mode |-> p.mode, position |-> p.position]

Entries == { Entry(off, p) : off \in 0..MaxOffset, p \in Payloads }

\* The generator appends entries in instruction order: a table is sorted
\* ascending by instructionOffset (equal offsets may repeat).
IsSorted(t) ==
    \A i \in 1..Len(t) : \A j \in 1..Len(t) :
        i < j => t[i].instructionOffset <= t[j].instructionOffset

Tables ==
    { t \in UNION { [1..n -> Entries] : n \in 0..MaxEntries } : IsSorted(t) }

\* The values a caller's out-parameters hold before the call.
CallerValues == {0, 77}

NoOut == [divot |-> 0, startOffset |-> 0, endOffset |-> 0, line |-> 0, column |-> 0]

-----------------------------------------------------------------------------
(* expressionRangeForBytecodeIndex, one step per action. *)

\* What a read outside the table's storage yields: no entry of the table.
OutsideTable ==
    [instructionOffset |-> 0, divotPoint |-> 99, startOffset |-> 99, endOffset |-> 99,
     mode |-> FatLineMode, position |-> Word(0)]

\* expressionInfo[i] of the code (RefCountedArray::operator[]).
InfoAt(i) ==
    IF i \in 0..(Len(m_expressionInfo) - 1) THEN m_expressionInfo[i + 1] ELSE OutsideTable

\* instructions().size(): the offsets a caller may ask about.
ValidOffsets == 0..MaxOffset

\* The call: ASSERT(bytecodeIndex.offset() < instructions().size()).
RangeCall(o, c) ==
    /\ rangePc = "idle"
    /\ o \in ValidOffsets
    /\ bytecodeOffset' = o
    /\ out' = [divot |-> c, startOffset |-> c, endOffset |-> c, line |-> c, column |-> c]
    /\ probed' = {}
    /\ low' = 0
    /\ high' = 0
    /\ rangePc' = "entry"
    /\ UNCHANGED m_expressionInfo
    /\ UNCHANGED notRange

\* RangeEntry with the empty-table branch clearing only the three offsets.
RangeEntryKeepsLineColumn ==
    /\ rangePc = "entry"
    /\ IF Len(m_expressionInfo) = 0
         THEN /\ out' = [out EXCEPT !.divot = 0, !.startOffset = 0, !.endOffset = 0]
              /\ rangePc' = "done"
              /\ UNCHANGED <<low, high>>
         ELSE /\ low' = 0
              /\ high' = Len(m_expressionInfo)
              /\ rangePc' = "loop"
              /\ UNCHANGED out
    /\ UNCHANGED <<m_expressionInfo, bytecodeOffset, probed>>
    /\ UNCHANGED notRange

\* if (!m_expressionInfo.size()) { all outputs = 0; return; }
\* else low = 0, high = expressionInfo.size().
RangeEntry ==
    /\ rangePc = "entry"
    /\ IF Len(m_expressionInfo) = 0
         THEN /\ out' = NoOut
              /\ rangePc' = "done"
              /\ UNCHANGED <<low, high>>
         ELSE /\ low' = 0
              /\ high' = Len(m_expressionInfo)
              /\ rangePc' = "loop"
              /\ UNCHANGED out
    /\ UNCHANGED <<m_expressionInfo, bytecodeOffset, probed>>
    /\ UNCHANGED notRange

\* RangeLoop comparing with < where the code compares with <=.
RangeLoopStrict ==
    /\ rangePc = "loop"
    /\ low < high
    /\ LET mid == low + (high - low) \div 2
       IN  /\ probed' = probed \cup {mid}
           /\ IF InfoAt(mid).instructionOffset < bytecodeOffset
                THEN low' = mid + 1 /\ UNCHANGED high
                ELSE high' = mid /\ UNCHANGED low
    /\ UNCHANGED <<m_expressionInfo, rangePc, bytecodeOffset, out>>
    /\ UNCHANGED notRange

\* RangeLoop with low = mid where the code has low = mid + 1.
RangeLoopLowIsMid ==
    /\ rangePc = "loop"
    /\ low < high
    /\ LET mid == low + (high - low) \div 2
       IN  /\ probed' = probed \cup {mid}
           /\ IF InfoAt(mid).instructionOffset <= bytecodeOffset
                THEN low' = mid /\ UNCHANGED high
                ELSE high' = mid /\ UNCHANGED low
    /\ UNCHANGED <<m_expressionInfo, rangePc, bytecodeOffset, out>>
    /\ UNCHANGED notRange

\* One iteration of while (low < high).
RangeLoop ==
    /\ rangePc = "loop"
    /\ low < high
    /\ LET mid == low + (high - low) \div 2
       IN  /\ probed' = probed \cup {mid}
           /\ IF InfoAt(mid).instructionOffset <= bytecodeOffset
                THEN low' = mid + 1 /\ UNCHANGED high
                ELSE high' = mid /\ UNCHANGED low
    /\ UNCHANGED <<m_expressionInfo, rangePc, bytecodeOffset, out>>
    /\ UNCHANGED notRange

\* RangeExit without the adjustment if (!low) low = 1.
RangeExitNoClamp ==
    /\ rangePc = "loop"
    /\ ~(low < high)
    /\ LET info == InfoAt(low - 1)
           lc == getLineAndColumn(info, out.line, out.column)
       IN  /\ probed' = probed \cup {low - 1}
           /\ out' = [divot |-> info.divotPoint, startOffset |-> info.startOffset,
                      endOffset |-> info.endOffset, line |-> lc[1], column |-> lc[2]]
    /\ rangePc' = "done"
    /\ UNCHANGED <<m_expressionInfo, bytecodeOffset, low, high>>
    /\ UNCHANGED notRange

\* The loop's exit: if (!low) low = 1; info = expressionInfo[low - 1]; the
\* outputs are copied from info.
RangeExit ==
    /\ rangePc = "loop"
    /\ ~(low < high)
    /\ LET l == IF low = 0 THEN 1 ELSE low
           info == InfoAt(l - 1)
           lc == getLineAndColumn(info, out.line, out.column)
       IN  /\ low' = l
           /\ probed' = probed \cup {l - 1}
           /\ out' = [divot |-> info.divotPoint, startOffset |-> info.startOffset,
                      endOffset |-> info.endOffset, line |-> lc[1], column |-> lc[2]]
    /\ rangePc' = "done"
    /\ UNCHANGED <<m_expressionInfo, bytecodeOffset, high>>
    /\ UNCHANGED notRange

\* The caller takes the result; the block may be asked again.
RangeReturn ==
    /\ rangePc = "done"
    /\ rangePc' = "idle"
    /\ UNCHANGED <<m_expressionInfo, bytecodeOffset, low, high, probed, out>>
    /\ UNCHANGED notRange

RangeInit ==
    /\ m_expressionInfo \in Tables
    /\ rangePc = "idle"
    /\ bytecodeOffset = 0
    /\ low = 0
    /\ high = 0
    /\ probed = {}
    /\ out = NoOut

RangeNext ==
    \/ \E o \in ValidOffsets, c \in CallerValues : RangeCall(o, c)
    \/ RangeEntry
    \/ RangeLoop
    \/ RangeExit
    \/ RangeReturn

\* No source-position query is made: the block has no table to ask.
RangeQuiet ==
    /\ m_expressionInfo = << >>
    /\ rangePc = "idle"
    /\ bytecodeOffset = 0
    /\ low = 0
    /\ high = 0
    /\ probed = {}
    /\ out = NoOut

-----------------------------------------------------------------------------
(* handlerForIndex and handlerForBytecodeIndex. *)

\* nullptr.
Null == 0

\* RequiredHandler.
CatchHandler == "CatchHandler"
AnyHandler == "AnyHandler"

\* HandlerType of an UnlinkedHandlerInfo.
HandlerTypes == {"Catch", "Finally"}

\* An UnlinkedHandlerInfo covers the offsets [start, end).
Handlers ==
    { [start |-> a, end |-> b, type |-> ty] :
        a \in 0..MaxHandlerOffset, b \in 1..(MaxHandlerOffset + 1), ty \in HandlerTypes }

Disjoint(g, h) == g.end <= h.start \/ h.end <= g.start
Within(g, h) == h.start <= g.start /\ g.end <= h.end

\* The generator's tables: every range non-empty, and any two ranges
\* disjoint or nested (try blocks nest, they never cross).
WellNested(t) ==
    /\ \A i \in 1..Len(t) : t[i].start < t[i].end
    /\ \A i \in 1..Len(t) : \A j \in 1..Len(t) :
          Disjoint(t[i], t[j]) \/ Within(t[i], t[j]) \/ Within(t[j], t[i])

HandlerTables ==
    { t \in UNION { [1..n -> Handlers] : n \in 0..MaxHandlers } : WellNested(t) }

\* Whether handler h is of the kind the caller requires.
Satisfies(h, required) == required = AnyHandler \/ h.type = "Catch"

\* Whether handler h is a candidate for index.
Matches(h, index, required) ==
    Satisfies(h, required) /\ h.start <= index /\ index < h.end

\* UnlinkedHandlerInfo::handlerForIndex returning the first match in table order.
HandlerInfoFirstMatch(handlers, index, required) ==
    LET cand == { i \in 1..Len(handlers) : Matches(handlers[i], index, required) }
    IN  IF cand = {} THEN Null ELSE CHOOSE i \in cand : \A j \in cand : i <= j

\* The scan of UnlinkedHandlerInfo::handlerForIndex over handlers[k..]: best
\* is the position kept so far. A later candidate inside the kept one
\* replaces it, so the innermost candidate is returned and, of two with the
\* same range, the one registered last.
RECURSIVE HandlerScan(_, _, _, _, _)
HandlerScan(handlers, k, best, index, required) ==
    IF k > Len(handlers) THEN best
    ELSE IF /\ Matches(handlers[k], index, required)
            /\ (best = Null \/ Within(handlers[k], handlers[best]))
         THEN HandlerScan(handlers, k + 1, k, index, required)
         ELSE HandlerScan(handlers, k + 1, best, index, required)

\* UnlinkedHandlerInfo::handlerForIndex<UnlinkedHandlerInfo>(handlers, index, required).
HandlerInfoHandlerForIndex(handlers, index, required) ==
    HandlerScan(handlers, 1, Null, index, required)

\* A bytecode index packs an offset and a checkpoint; offset() unpacks the offset.
BytecodeIndices == [offset : 0..MaxHandlerOffset, checkpoint : 0..1]
Offset(bytecodeIndex) == bytecodeIndex.offset

\* handlerForIndex without the check of m_rareData: a null m_rareData is
\* dereferenced and the call crashes.
handlerForIndexNoRareDataCheck(call, index, required) ==
    /\ handlerCall = "none"
    /\ handlerCall' = call
    /\ handlerIndex' = index
    /\ requiredHandler' = required
    /\ handlerResult' = HandlerInfoHandlerForIndex(m_exceptionHandlers, index, required)
    /\ failFast' = (failFast \/ ~m_rareData)
    /\ UNCHANGED <<m_rareData, m_exceptionHandlers>>
    /\ UNCHANGED notHandler

\* UnlinkedCodeBlock::handlerForIndex(index, requiredHandler), entered as call.
handlerForIndex(call, index, required) ==
    /\ handlerCall = "none"
    /\ handlerCall' = call
    /\ handlerIndex' = index
    /\ requiredHandler' = required
    /\ handlerResult' =
         IF ~m_rareData THEN Null
         ELSE HandlerInfoHandlerForIndex(m_exceptionHandlers, index, required)
    /\ UNCHANGED <<m_rareData, m_exceptionHandlers, failFast>>
    /\ UNCHANGED notHandler

\* UnlinkedCodeBlock::handlerForBytecodeIndex(bytecodeIndex, requiredHandler).
handlerForBytecodeIndex(bytecodeIndex, required) ==
    handlerForIndex("handlerForBytecodeIndex", Offset(bytecodeIndex), required)

\* The caller has taken the result; the block may be asked again.
HandlerReturn ==
    /\ handlerCall # "none"
    /\ handlerCall' = "none"
    /\ handlerIndex' = 0
    /\ requiredHandler' = AnyHandler
    /\ handlerResult' = Null
    /\ UNCHANGED <<m_rareData, m_exceptionHandlers, failFast>>
    /\ UNCHANGED notHandler

HandlerInit ==
    /\ m_rareData \in BOOLEAN
    /\ m_exceptionHandlers \in (IF m_rareData THEN HandlerTables ELSE { << >> })
    /\ handlerCall = "none"
    /\ handlerIndex = 0
    /\ requiredHandler = AnyHandler
    /\ handlerResult = Null
    /\ failFast = FALSE

HandlerNext ==
    \/ \E i \in 0..MaxHandlerOffset, r \in {CatchHandler, AnyHandler} :
          handlerForIndex("handlerForIndex", i, r)
    \/ \E b \in BytecodeIndices, r \in {CatchHandler, AnyHandler} :
          handlerForBytecodeIndex(b, r)
    \/ HandlerReturn

\* No handler lookup is made; the rare data holds only the fat positions.
HandlerQuiet ==
    /\ m_rareData = TRUE
    /\ m_exceptionHandlers = << >>
    /\ handlerCall = "none"
    /\ handlerIndex = 0
    /\ requiredHandler = AnyHandler
    /\ handlerResult = Null
    /\ failFast = FALSE

-----------------------------------------------------------------------------
(* livenessAnalysis and visitChildren, run by concurrent threads. *)

Threads == 1..NumThreads
NoThread == 0

\* UnlinkedCodeBlock::maxAge.
maxAge == 7

Min(a, b) == IF a < b THEN a ELSE b

\* The two stores of m_liveness = makeUnique<BytecodeLivenessAnalysis>(codeBlock):
\* the constructor's stores into the new object, and the store of the pointer.
\* Both are plain stores, so until the builder releases m_lock a thread that
\* does not hold the lock may see either without the other.
BuilderStores == {"object", "pointer"}

\* m_liveness as read by a thread that does not hold m_lock.
LivenessSeenWithoutLock == IF "pointer" \in published THEN m_liveness ELSE Null

\* A thread calls livenessAnalysis(codeBlock), codeBlock linked from this block.
LivenessCall(t) ==
    /\ pc[t] = "idle"
    /\ pc' = [pc EXCEPT ![t] = "fast"]
    /\ result' = [result EXCEPT ![t] = Null]
    /\ local' = [local EXCEPT ![t] = Null]
    /\ UNCHANGED <<m_lock, cellLock, m_liveness, analyses, published, sawPartial,
                   isFirstVisit, m_age, firstVisits, repeatVisited>>
    /\ UNCHANGED visitorVars
    /\ UNCHANGED notThreads

\* livenessAnalysis: if (m_liveness) return *m_liveness; else the slow path.
\* No lock is taken for the check.
LivenessFast(t) ==
    /\ pc[t] = "fast"
    /\ IF LivenessSeenWithoutLock # Null
         THEN /\ result' = [result EXCEPT ![t] = LivenessSeenWithoutLock]
              /\ pc' = [pc EXCEPT ![t] = "use"]
         ELSE /\ pc' = [pc EXCEPT ![t] = "slowLock"]
              /\ UNCHANGED result
    /\ UNCHANGED <<m_lock, cellLock, m_liveness, analyses, published, local, sawPartial,
                   isFirstVisit, m_age, firstVisits, repeatVisited>>
    /\ UNCHANGED visitorVars
    /\ UNCHANGED notThreads

\* SlowLock entering the block without taking m_lock.
SlowLockNotTaken(t) ==
    /\ pc[t] = "slowLock"
    /\ pc' = [pc EXCEPT ![t] = "slowCheck"]
    /\ UNCHANGED <<m_lock, cellLock, m_liveness, analyses, published, local, result,
                   sawPartial, isFirstVisit, m_age, firstVisits, repeatVisited>>
    /\ UNCHANGED visitorVars
    /\ UNCHANGED notThreads

\* livenessAnalysisSlow: ConcurrentJSLocker locker(m_lock).
SlowLock(t) ==
    /\ pc[t] = "slowLock"
    /\ m_lock = NoThread
    /\ m_lock' = t
    /\ pc' = [pc EXCEPT ![t] = "slowCheck"]
    /\ UNCHANGED <<cellLock, m_liveness, analyses, published, local, result, sawPartial,
                   isFirstVisit, m_age, firstVisits, repeatVisited>>
    /\ UNCHANGED visitorVars
    /\ UNCHANGED notThreads

\* SlowCheck without the test of m_liveness: the analysis is made again.
SlowCheckAlwaysBuilds(t) ==
    /\ pc[t] = "slowCheck"
    /\ analyses' = analyses + 1
    /\ local' = [local EXCEPT ![t] = analyses + 1]
    /\ published' = published \ {"object"}
    /\ pc' = [pc EXCEPT ![t] = "slowStore"]
    /\ UNCHANGED <<m_lock, cellLock, m_liveness, result, sawPartial,
                   isFirstVisit, m_age, firstVisits, repeatVisited>>
    /\ UNCHANGED visitorVars
    /\ UNCHANGED notThreads

\* if (!m_liveness), read under m_lock, and when it is null the right-hand
\* side makeUnique<BytecodeLivenessAnalysis>(codeBlock): the analysis is
\* computed into a new object.
SlowCheck(t) ==
    /\ pc[t] = "slowCheck"
    /\ IF m_liveness = Null
         THEN /\ analyses' = analyses + 1
              /\ local' = [local EXCEPT ![t] = analyses + 1]
              /\ published' = published \ {"object"}
              /\ pc' = [pc EXCEPT ![t] = "slowStore"]
         ELSE /\ pc' = [pc EXCEPT ![t] = "slowUnlock"]
              /\ UNCHANGED <<analyses, local, published>>
    /\ UNCHANGED <<m_lock, cellLock, m_liveness, result, sawPartial,
                   isFirstVisit, m_age, firstVisits, repeatVisited>>
    /\ UNCHANGED visitorVars
    /\ UNCHANGED notThreads

\* m_liveness = ...: the pointer to the new object is stored.
SlowStore(t) ==
    /\ pc[t] = "slowStore"
    /\ m_liveness' = local[t]
    /\ published' = published \ {"pointer"}
    /\ pc' = [pc EXCEPT ![t] = "slowUnlock"]
    /\ UNCHANGED <<m_lock, cellLock, analyses, local, result, sawPartial,
                   isFirstVisit, m_age, firstVisits, repeatVisited>>
    /\ UNCHANGED visitorVars
    /\ UNCHANGED notThreads

\* One of the builder's stores reaches the threads that do not hold m_lock.
Publish(s) ==
    /\ s \in BuilderStores \ published
    /\ s = "object" => analyses > 0
    /\ s = "pointer" => m_liveness # Null
    /\ published' = published \cup {s}
    /\ UNCHANGED <<pc, m_lock, cellLock, m_liveness, analyses, local, result, sawPartial,
                   isFirstVisit, m_age, firstVisits, repeatVisited>>
    /\ UNCHANGED visitorVars
    /\ UNCHANGED notThreads

\* SlowUnlock leaving m_lock held.
SlowUnlockKeepsLock(t) ==
    /\ pc[t] = "slowUnlock"
    /\ published' = { s \in BuilderStores : (s = "object" => analyses > 0)
                                           /\ (s = "pointer" => m_liveness # Null) }
    /\ pc' = [pc EXCEPT ![t] = "slowReturn"]
    /\ UNCHANGED <<m_lock, cellLock, m_liveness, analyses, local, result, sawPartial,
                   isFirstVisit, m_age, firstVisits, repeatVisited>>
    /\ UNCHANGED visitorVars
    /\ UNCHANGED notThreads

\* The locker's scope ends: m_lock is released, and with it every store made
\* under the lock is visible to all threads.
SlowUnlock(t) ==
    /\ pc[t] = "slowUnlock"
    /\ m_lock' = (IF m_lock = t THEN NoThread ELSE m_lock)
    /\ published' = { s \in BuilderStores : (s = "object" => analyses > 0)
                                           /\ (s = "pointer" => m_liveness # Null) }
    /\ pc' = [pc EXCEPT ![t] = "slowReturn"]
    /\ UNCHANGED <<cellLock, m_liveness, analyses, local, result, sawPartial,
                   isFirstVisit, m_age, firstVisits, repeatVisited>>
    /\ UNCHANGED visitorVars
    /\ UNCHANGED notThreads

\* return *m_liveness, read after the lock is released.
SlowReturn(t) ==
    /\ pc[t] = "slowReturn"
    /\ result' = [result EXCEPT ![t] = m_liveness]
    /\ pc' = [pc EXCEPT ![t] = "use"]
    /\ UNCHANGED <<m_lock, cellLock, m_liveness, analyses, published, local, sawPartial,
                   isFirstVisit, m_age, firstVisits, repeatVisited>>
    /\ UNCHANGED visitorVars
    /\ UNCHANGED notThreads

\* The caller reads the analysis through the reference it was given.
LivenessUse(t) ==
    /\ pc[t] = "use"
    /\ sawPartial' = (sawPartial \/ "object" \notin published)
    /\ pc' = [pc EXCEPT ![t] = "idle"]
    /\ UNCHANGED <<m_lock, cellLock, m_liveness, analyses, published, local, result,
                   isFirstVisit, m_age, firstVisits, repeatVisited>>
    /\ UNCHANGED visitorVars
    /\ UNCHANGED notThreads

\* No size has been reported or returned.
NotReported == -1

\* m_instructions when the block holds no instruction stream: there is no
\* object whose size could be read.
NoInstructions == [present |-> FALSE, sizeInBytes |-> 4096]

\* visitChildren's extraMemory: the metadata table's bytes, plus the
\* instruction stream's when there is one.
VisitExtraMemory ==
    LET extraMemory == m_metadata.sizeInBytes
    IN  IF m_instructions.present
          THEN extraMemory + m_instructions.sizeInBytes
          ELSE extraMemory

\* The collector calls visitChildren(cell, visitor); Base::visitChildren
\* runs before any lock is taken.
VisitCall(t, first) ==
    /\ pc[t] = "idle"
    /\ first => firstVisits < MaxFirstVisits
    /\ isFirstVisit' = [isFirstVisit EXCEPT ![t] = first]
    /\ pc' = [pc EXCEPT ![t] = "visitLock"]
    /\ UNCHANGED <<m_lock, cellLock, m_liveness, analyses, published, local, result,
                   sawPartial, m_age, firstVisits, repeatVisited>>
    /\ UNCHANGED visitorVars
    /\ UNCHANGED notThreads

\* VisitLock taking m_lock where the code takes the cell lock.
VisitLockTakesMLock(t) ==
    /\ pc[t] = "visitLock"
    /\ m_lock = NoThread
    /\ m_lock' = t
    /\ pc' = [pc EXCEPT ![t] = "visitBody"]
    /\ UNCHANGED <<cellLock, m_liveness, analyses, published, local, result, sawPartial,
                   isFirstVisit, m_age, firstVisits, repeatVisited>>
    /\ UNCHANGED visitorVars
    /\ UNCHANGED notThreads

\* auto locker = holdLock(thisObject->cellLock()).
VisitLock(t) ==
    /\ pc[t] = "visitLock"
    /\ cellLock = NoThread
    /\ cellLock' = t
    /\ pc' = [pc EXCEPT ![t] = "visitBody"]
    /\ UNCHANGED <<m_lock, m_liveness, analyses, published, local, result, sawPartial,
                   isFirstVisit, m_age, firstVisits, repeatVisited>>
    /\ UNCHANGED visitorVars
    /\ UNCHANGED notThreads

\* VisitBody raising the age on every visit.
VisitBodyAgesEveryVisit(t) ==
    /\ pc[t] = "visitBody"
    /\ m_age' = Min(m_age + 1, maxAge)
    /\ firstVisits' = IF isFirstVisit[t] THEN firstVisits + 1 ELSE firstVisits
    /\ repeatVisited' = (repeatVisited \/ ~isFirstVisit[t])
    /\ appended' = [appended EXCEPT
                      ![t] = m_functionDecls \o m_functionExprs \o m_constantRegisters]
    /\ extraMemoryVisited' = [extraMemoryVisited EXCEPT ![t] = VisitExtraMemory]
    /\ pc' = [pc EXCEPT ![t] = "visitUnlock"]
    /\ UNCHANGED <<m_lock, cellLock, m_liveness, analyses, published, local, result,
                   sawPartial, isFirstVisit>>
    /\ UNCHANGED notThreads

\* VisitBody appending the children on first-visits only.
VisitBodyAppendsOnFirstVisit(t) ==
    /\ pc[t] = "visitBody"
    /\ IF isFirstVisit[t]
         THEN /\ m_age' = Min(m_age + 1, maxAge)
              /\ firstVisits' = firstVisits + 1
              /\ appended' = [appended EXCEPT
                      ![t] = m_functionDecls \o m_functionExprs \o m_constantRegisters]
              /\ UNCHANGED repeatVisited
         ELSE /\ repeatVisited' = TRUE
              /\ UNCHANGED <<m_age, firstVisits, appended>>
    /\ extraMemoryVisited' = [extraMemoryVisited EXCEPT ![t] = VisitExtraMemory]
    /\ pc' = [pc EXCEPT ![t] = "visitUnlock"]
    /\ UNCHANGED <<m_lock, cellLock, m_liveness, analyses, published, local, result,
                   sawPartial, isFirstVisit>>
    /\ UNCHANGED notThreads

\* Under the cell lock: if (visitor.isFirstVisit()) m_age = min(m_age + 1, maxAge);
\* then every function declaration, every function expression and the
\* constants are appended, and the extra memory is reported.
VisitBody(t) ==
    /\ pc[t] = "visitBody"
    /\ IF isFirstVisit[t]
         THEN /\ m_age' = Min(m_age + 1, maxAge)
              /\ firstVisits' = firstVisits + 1
              /\ UNCHANGED repeatVisited
         ELSE /\ repeatVisited' = TRUE
              /\ UNCHANGED <<m_age, firstVisits>>
    /\ appended' = [appended EXCEPT
                      ![t] = m_functionDecls \o m_functionExprs \o m_constantRegisters]
    /\ extraMemoryVisited' = [extraMemoryVisited EXCEPT ![t] = VisitExtraMemory]
    /\ pc' = [pc EXCEPT ![t] = "visitUnlock"]
    /\ UNCHANGED <<m_lock, cellLock, m_liveness, analyses, published, local, result,
                   sawPartial, isFirstVisit>>
    /\ UNCHANGED notThreads

\* visitChildren returns: the locker releases the cell lock, and the visit
\* is no longer in progress.
VisitUnlock(t) ==
    /\ pc[t] = "visitUnlock"
    /\ cellLock' = (IF cellLock = t THEN NoThread ELSE cellLock)
    /\ appended' = [appended EXCEPT ![t] = << >>]
    /\ extraMemoryVisited' = [extraMemoryVisited EXCEPT ![t] = NotReported]
    /\ pc' = [pc EXCEPT ![t] = "idle"]
    /\ UNCHANGED <<m_lock, m_liveness, analyses, published, local, result, sawPartial,
                   isFirstVisit, m_age, firstVisits, repeatVisited>>
    /\ UNCHANGED notThreads

\* The block after its constructor: m_age(0), no liveness analysis.
ThreadsInit ==
    /\ pc = [t \in Threads |-> "idle"]
    /\ m_lock = NoThread
    /\ cellLock = NoThread
    /\ m_liveness = Null
    /\ analyses = 0
    /\ published = {}
    /\ local = [t \in Threads |-> Null]
    /\ result = [t \in Threads |-> Null]
    /\ sawPartial = FALSE
    /\ isFirstVisit = [t \in Threads |-> FALSE]
    /\ m_age = 0
    /\ firstVisits = 0
    /\ repeatVisited = FALSE
    /\ appended = [t \in Threads |-> << >>]
    /\ extraMemoryVisited = [t \in Threads |-> NotReported]
    /\ estimated = NotReported

ThreadsNext ==
    \/ \E t \in Threads : LivenessCall(t)
    \/ \E t \in Threads : LivenessFast(t)
    \/ \E t \in Threads : SlowLock(t)
    \/ \E t \in Threads : SlowCheck(t)
    \/ \E t \in Threads : SlowStore(t)
    \/ \E s \in BuilderStores : Publish(s)
    \/ \E t \in Threads : SlowUnlock(t)
    \/ \E t \in Threads : SlowReturn(t)
    \/ \E t \in Threads : LivenessUse(t)
    \/ \E t \in Threads, first \in BOOLEAN : VisitCall(t, first)
    \/ \E t \in Threads : VisitLock(t)
    \/ \E t \in Threads : VisitBody(t)
    \/ \E t \in Threads : VisitUnlock(t)

\* Every step thread t can take.
ThreadStep(t) ==
    \/ LivenessCall(t) \/ LivenessFast(t) \/ SlowLock(t) \/ SlowCheck(t) \/ SlowStore(t)
    \/ SlowUnlock(t) \/ SlowReturn(t) \/ LivenessUse(t)
    \/ \E first \in BOOLEAN : VisitCall(t, first)
    \/ VisitLock(t) \/ VisitBody(t) \/ VisitUnlock(t)

\* No thread uses the block.
ThreadsQuiet ==
    /\ pc = [t \in Threads |-> "idle"]
    /\ m_lock = NoThread
    /\ cellLock = NoThread
    /\ m_liveness = Null
    /\ analyses = 0
    /\ published = {}
    /\ local = [t \in Threads |-> Null]
    /\ result = [t \in Threads |-> Null]
    /\ sawPartial = FALSE
    /\ isFirstVisit = [t \in Threads |-> FALSE]
    /\ m_age = 0
    /\ firstVisits = 0
    /\ repeatVisited = FALSE
    /\ appended = [t \in Threads |-> << >>]
    /\ extraMemoryVisited = [t \in Threads |-> NotReported]
    /\ estimated = NotReported

-----------------------------------------------------------------------------
(* What the block owns, and estimatedSize. *)

FunctionDeclTables == { << >>, <<"decl1", "decl2">> }
FunctionExprTables == { << >>, <<"expr1">> }
ConstantTables == { << >>, <<"k1", "k2">> }
MetadataTables == { [sizeInBytes |-> 8], [sizeInBytes |-> 24] }
InstructionStreams ==
    { NoInstructions, [present |-> TRUE, sizeInBytes |-> 0],
      [present |-> TRUE, sizeInBytes |-> 40] }

\* Base::estimatedSize(cell, vm).
BaseEstimatedSize == 100

\* estimatedSize without the instruction stream's bytes.
EstimatedSizeOmitsInstructions ==
    /\ LET extraSize == m_metadata.sizeInBytes
       IN  estimated' = BaseEstimatedSize + extraSize
    /\ UNCHANGED <<rangeVars, handlerVars, threadVars, codecVars, blockVars, visitorVars,
                   mapVars, parserVars>>

\* estimatedSize: takes no lock and changes nothing of the block.
EstimatedSize ==
    /\ LET extraSize == m_metadata.sizeInBytes
       IN  IF m_instructions.present
             THEN estimated' = BaseEstimatedSize + (extraSize + m_instructions.sizeInBytes)
             ELSE estimated' = BaseEstimatedSize + extraSize
    /\ UNCHANGED <<rangeVars, handlerVars, threadVars, codecVars, blockVars, visitorVars,
                   mapVars, parserVars>>

\* A block as the generator has finished it.
BlockInit ==
    /\ m_functionDecls \in FunctionDeclTables
    /\ m_functionExprs \in FunctionExprTables
    /\ m_constantRegisters \in ConstantTables
    /\ m_metadata \in MetadataTables
    /\ m_instructions \in InstructionStreams

\* One block with every kind of child and an instruction stream.
BlockQuiet ==
    /\ m_functionDecls = <<"decl1", "decl2">>
    /\ m_functionExprs = <<"expr1">>
    /\ m_constantRegisters = <<"k1", "k2">>
    /\ m_metadata = [sizeInBytes |-> 8]
    /\ m_instructions = [present |-> TRUE, sizeInBytes |-> 40]

VisitNext ==
    \/ \E t \in Threads, first \in BOOLEAN : VisitCall(t, first)
    \/ \E t \in Threads : VisitLock(t)
    \/ \E t \in Threads : VisitBody(t)
    \/ \E t \in Threads : VisitUnlock(t)
    \/ EstimatedSize

-----------------------------------------------------------------------------
(* outOfLineJumpOffset and typeProfilerExpressionInfoForBytecodeOffset. *)

\* UINT_MAX as a 32-bit word.
UINT_MAX == [hi |-> Pow2(HalfBits) - 1, lo |-> Pow2(HalfBits) - 1]

JumpOffsets == 1..MaxJumpOffset

\* Jump targets: a backward and a forward jump.
JumpTargets == {-2, 5}

\* TypeProfilerExpressionRange values.
TypeProfilerRanges ==
    { [m_startDivot |-> Word(3), m_endDivot |-> Word(9)],
      [m_startDivot |-> Word(70000), m_endDivot |-> Word(70001)] }

\* The hash maps over a set of keys.
MapsTo(keys, values) == UNION { [d -> values] : d \in SUBSET keys }

\* HashMap::get: the mapped value, or the empty value of int for a key that
\* is not in the map.
HashMapGet(map, key) == IF key \in DOMAIN map THEN map[key] ELSE 0

NoMapCall == [op |-> "none", offset |-> 0]

NoMapResult == [returned |-> 0, startDivot |-> Word(0), endDivot |-> Word(0)]

\* outOfLineJumpOffset without its ASSERT in every build.
outOfLineJumpOffsetNeverAsserts(offset) ==
    /\ mapCall = NoMapCall
    /\ ~mapCrashed
    /\ mapCall' = [op |-> "outOfLineJumpOffset", offset |-> offset]
    /\ mapResult' = [NoMapResult EXCEPT
                        !.returned = HashMapGet(m_outOfLineJumpTargets, offset)]
    /\ UNCHANGED <<assertionsEnabled, m_outOfLineJumpTargets, m_typeProfilerInfoMap,
                   mapCrashed>>
    /\ UNCHANGED notMaps

\* outOfLineJumpOffset(offset): ASSERT(contains), then get. The
\* ASSERT is compiled in only when assertions are enabled.
outOfLineJumpOffset(offset) ==
    /\ mapCall = NoMapCall
    /\ ~mapCrashed
    /\ mapCall' = [op |-> "outOfLineJumpOffset", offset |-> offset]
    /\ IF assertionsEnabled /\ offset \notin DOMAIN m_outOfLineJumpTargets
         THEN /\ mapCrashed' = TRUE
              /\ UNCHANGED mapResult
         ELSE /\ mapResult' = [NoMapResult EXCEPT
                        !.returned = HashMapGet(m_outOfLineJumpTargets, offset)]
              /\ UNCHANGED mapCrashed
    /\ UNCHANGED <<assertionsEnabled, m_outOfLineJumpTargets, m_typeProfilerInfoMap>>
    /\ UNCHANGED notMaps

\* typeProfilerExpressionInfoForBytecodeOffset leaving the out-parameters
\* alone when the offset is not in the map.
typeProfilerExpressionInfoKeepsDivots(offset, startDivot, endDivot) ==
    /\ mapCall = NoMapCall
    /\ ~mapCrashed
    /\ mapCall' = [op |-> "typeProfilerExpressionInfoForBytecodeOffset",
                   offset |-> offset]
    /\ IF ~m_rareData
         THEN mapResult' = [returned |-> FALSE, startDivot |-> UINT_MAX,
                            endDivot |-> UINT_MAX]
         ELSE IF offset \notin DOMAIN m_typeProfilerInfoMap
           THEN mapResult' = [returned |-> FALSE, startDivot |-> startDivot,
                              endDivot |-> endDivot]
           ELSE LET range == m_typeProfilerInfoMap[offset]
                IN  mapResult' = [returned |-> TRUE, startDivot |-> range.m_startDivot,
                                  endDivot |-> range.m_endDivot]
    /\ UNCHANGED <<assertionsEnabled, m_outOfLineJumpTargets, m_typeProfilerInfoMap,
                   mapCrashed>>
    /\ UNCHANGED notMaps

\* typeProfilerExpressionInfoForBytecodeOffset(offset, startDivot,
\* endDivot), the out-parameters holding the given values before the call.
typeProfilerExpressionInfoForBytecodeOffset(offset, startDivot, endDivot) ==
    /\ mapCall = NoMapCall
    /\ ~mapCrashed
    /\ mapCall' = [op |-> "typeProfilerExpressionInfoForBytecodeOffset",
                   offset |-> offset]
    /\ IF ~m_rareData
         THEN mapResult' = [returned |-> FALSE, startDivot |-> UINT_MAX,
                            endDivot |-> UINT_MAX]
         ELSE IF offset \notin DOMAIN m_typeProfilerInfoMap
           THEN mapResult' = [returned |-> FALSE, startDivot |-> UINT_MAX,
                              endDivot |-> UINT_MAX]
           ELSE LET range == m_typeProfilerInfoMap[offset]
                IN  mapResult' = [returned |-> TRUE, startDivot |-> range.m_startDivot,
                                  endDivot |-> range.m_endDivot]
    /\ UNCHANGED <<assertionsEnabled, m_outOfLineJumpTargets, m_typeProfilerInfoMap,
                   mapCrashed>>
    /\ UNCHANGED notMaps

\* The caller has taken the result; the block may be asked again.
MapReturn ==
    /\ mapCall # NoMapCall
    /\ ~mapCrashed
    /\ mapCall' = NoMapCall
    /\ mapResult' = NoMapResult
    /\ UNCHANGED <<assertionsEnabled, m_outOfLineJumpTargets, m_typeProfilerInfoMap,
                   mapCrashed>>
    /\ UNCHANGED notMaps

\* A finished block, in a build with or without assertions; the
\* type-profiler map is part of the rare data.
MapsInit ==
    /\ assertionsEnabled \in BOOLEAN
    /\ m_outOfLineJumpTargets \in MapsTo(JumpOffsets, JumpTargets)
    /\ m_typeProfilerInfoMap \in
         (IF m_rareData THEN MapsTo(JumpOffsets, TypeProfilerRanges) ELSE { << >> })
    /\ mapCall = NoMapCall
    /\ mapResult = NoMapResult
    /\ mapCrashed = FALSE

MapsNext ==
    \/ \E o \in JumpOffsets : outOfLineJumpOffset(o)
    \/ \E o \in JumpOffsets, c \in CallerValues :
          typeProfilerExpressionInfoForBytecodeOffset(o, Word(c), Word(c))
    \/ MapReturn

\* No jump target and no profiled range is looked up.
MapsQuiet ==
    /\ assertionsEnabled = TRUE
    /\ m_outOfLineJumpTargets = << >>
    /\ m_typeProfilerInfoMap = << >>
    /\ mapCall = NoMapCall
    /\ mapResult = NoMapResult
    /\ mapCrashed = FALSE

\* No handler lookup is made; the block has rare data or has none.
HandlerQuietAnyRareData ==
    /\ m_rareData \in BOOLEAN
    /\ m_exceptionHandlers = << >>
    /\ handlerCall = "none"
    /\ handlerIndex = 0
    /\ requiredHandler = AnyHandler
    /\ handlerResult = Null
    /\ failFast = FALSE

-----------------------------------------------------------------------------
(* Parser::parse<ParsedNode>, Parser::reparse and Parser::parse. *)

\* The sources given to the parser; source s begins at line FirstLine(s).
Sources == {1, 2}
FirstLine(source) == 10 * source

\* The source elements the grammar hands to didFinishParsing, and the
\* SourceElements that didFinishParsing makes when it is handed none.
ParsedElements == 1
NewSourceElements == 2

\* A declaration stack handed to didFinishParsing.
SomeStack == 1

LexerLines == {5, 6}
LastLines == {3, 4}

\* UString(): the null string.
NullUString == "<null>"

\* What the caller's variables hold before the call.
CallerErrLine == 77
CallerErrMsg == "caller's"

NoParserCall == [kind |-> "none", source |-> Null, errLinePtr |-> FALSE, errMsgPtr |-> FALSE]

NotFinished ==
    [called |-> FALSE, sourceElements |-> Null, varStack |-> Null, funcStack |-> Null,
     lastLine |-> 0]

NoNode ==
    [made |-> FALSE, source |-> Null, children |-> Null, varStack |-> Null,
     funcStack |-> Null, firstLine |-> 0, lastLine |-> 0]

\* parse<ParsedNode>(source, errLine, errMsg) is entered: m_source = &source.
\* errLinePtr and errMsgPtr tell whether the pointers are non-null.
ParseCall(source, errLinePtr, errMsgPtr) ==
    /\ parserPc = "idle"
    /\ ~parserCrashed
    /\ parserCall' = [kind |-> "parse", source |-> source, errLinePtr |-> errLinePtr,
                      errMsgPtr |-> errMsgPtr]
    /\ parserDone' = FALSE
    /\ m_source' = source
    /\ errLine' = CallerErrLine
    /\ errMsg' = CallerErrMsg
    /\ parsedNode' = NoNode
    /\ finished' = NotFinished
    /\ parseError' = 0
    /\ lexError' = FALSE
    /\ parserPc' = "entry"
    /\ UNCHANGED <<m_sourceElements, m_varDeclarations, m_funcDeclarations, m_lastLine,
                   lexerLineNo, parserCrashed>>
    /\ UNCHANGED notParser

\* reparse(functionBodyNode) is entered: m_source = &functionBodyNode->source(),
\* then parse(0, 0).
ReparseCall(source) ==
    /\ parserPc = "idle"
    /\ ~parserCrashed
    /\ parserCall' = [kind |-> "reparse", source |-> source, errLinePtr |-> FALSE,
                      errMsgPtr |-> FALSE]
    /\ parserDone' = FALSE
    /\ m_source' = source
    /\ errLine' = CallerErrLine
    /\ errMsg' = CallerErrMsg
    /\ parsedNode' = NoNode
    /\ finished' = NotFinished
    /\ parseError' = 0
    /\ lexError' = FALSE
    /\ parserPc' = "entry"
    /\ UNCHANGED <<m_sourceElements, m_varDeclarations, m_funcDeclarations, m_lastLine,
                   lexerLineNo, parserCrashed>>
    /\ UNCHANGED notParser

\* Parser::parse up to lexer.setCode: ASSERT(!m_sourceElements), then
\* *errLine = -1 and *errMsg = 0 through the pointers that are non-null.
ParseEntry ==
    /\ parserPc = "entry"
    /\ IF assertionsEnabled /\ m_sourceElements # Null
         THEN /\ parserCrashed' = TRUE
              /\ parserPc' = "crashed"
              /\ UNCHANGED <<errLine, errMsg>>
         ELSE /\ errLine' = (IF parserCall.errLinePtr THEN -1 ELSE errLine)
              /\ errMsg' = (IF parserCall.errMsgPtr THEN NullUString ELSE errMsg)
              /\ parserPc' = "kjsyyparse"
              /\ UNCHANGED parserCrashed
    /\ UNCHANGED <<m_source, m_sourceElements, m_varDeclarations, m_funcDeclarations,
                   m_lastLine, parserCall, parserDone, parseError, lexError, lexerLineNo,
                   finished, parsedNode>>
    /\ UNCHANGED notParser

\* kjsyyparse() and what the lexer has seen by its end. The grammar calls
\* didFinishParsing when it accepts the program, so it has called it when it
\* returns 0; the lexer may have seen an error all the same.
kjsyyparse(error, sawError, line, called, sourceElements, varStack, funcStack, lastLine) ==
    /\ parserPc = "kjsyyparse"
    /\ error = 0 => called
    /\ parseError' = error
    /\ lexError' = sawError
    /\ lexerLineNo' = line
    /\ IF called
         THEN \* didFinishParsing(sourceElements, varStack, funcStack, lastLine)
              /\ m_sourceElements' =
                    (IF sourceElements # Null THEN sourceElements ELSE NewSourceElements)
              /\ m_varDeclarations' = varStack
              /\ m_funcDeclarations' = funcStack
              /\ m_lastLine' = lastLine
              /\ finished' = [called |-> TRUE, sourceElements |-> sourceElements,
                              varStack |-> varStack, funcStack |-> funcStack,
                              lastLine |-> lastLine]
         ELSE /\ sourceElements = Null /\ varStack = Null /\ funcStack = Null
              /\ lastLine = CHOOSE l \in LastLines : TRUE
              /\ UNCHANGED <<m_sourceElements, m_varDeclarations, m_funcDeclarations,
                             m_lastLine, finished>>
    /\ parserPc' = "afterParse"
    /\ UNCHANGED <<m_source, parserCall, parserDone, errLine, errMsg, parsedNode,
                   parserCrashed>>
    /\ UNCHANGED notParser

\* ParseFinish leaving m_sourceElements as it is when there was an error.
ParseFinishKeepsElements ==
    /\ parserPc = "afterParse"
    /\ IF parseError # 0 \/ lexError
         THEN /\ errLine' = (IF parserCall.errLinePtr THEN lexerLineNo ELSE errLine)
              /\ errMsg' = (IF parserCall.errMsgPtr THEN "Parse error" ELSE errMsg)
         ELSE UNCHANGED <<errLine, errMsg>>
    /\ parserPc' = "return"
    /\ UNCHANGED <<m_source, m_sourceElements, m_varDeclarations, m_funcDeclarations,
                   m_lastLine, parserCall, parserDone, parseError, lexError, lexerLineNo,
                   finished, parsedNode, parserCrashed>>
    /\ UNCHANGED notParser

\* The rest of Parser::parse: lexer.clear(), deleteNewObjects(), and on
\* parseError || lexError the line, the message and m_sourceElements.clear().
\* lexer.clear() leaves the lexer's line number as it is.
ParseFinish ==
    /\ parserPc = "afterParse"
    /\ IF parseError # 0 \/ lexError
         THEN /\ errLine' = (IF parserCall.errLinePtr THEN lexerLineNo ELSE errLine)
              /\ errMsg' = (IF parserCall.errMsgPtr THEN "Parse error" ELSE errMsg)
              /\ m_sourceElements' = Null
         ELSE UNCHANGED <<errLine, errMsg, m_sourceElements>>
    /\ parserPc' = "return"
    /\ UNCHANGED <<m_source, m_varDeclarations, m_funcDeclarations, m_lastLine,
                   parserCall, parserDone, parseError, lexError, lexerLineNo, finished,
                   parsedNode, parserCrashed>>
    /\ UNCHANGED notParser

\* The node made from the parser's members: ParsedNode::create and setLoc in
\* parse<>, setData and setLoc in reparse.
NodeFromMembers ==
    [made |-> TRUE, source |-> m_source, children |-> m_sourceElements,
     varStack |-> m_varDeclarations, funcStack |-> m_funcDeclarations,
     firstLine |-> FirstLine(m_source), lastLine |-> m_lastLine]

\* ParseReturn leaving m_varDeclarations and m_funcDeclarations set.
ParseReturnKeepsDeclarations ==
    /\ parserPc = "return"
    /\ parserCall.kind = "parse"
    /\ parsedNode' = (IF m_sourceElements # Null THEN NodeFromMembers ELSE NoNode)
    /\ m_source' = Null
    /\ m_sourceElements' = Null
    /\ parserDone' = TRUE
    /\ parserPc' = "idle"
    /\ UNCHANGED <<m_varDeclarations, m_funcDeclarations, m_lastLine, parserCall, errLine,
                   errMsg, parseError, lexError, lexerLineNo, finished, parserCrashed>>
    /\ UNCHANGED notParser

\* parse<ParsedNode> after parse(errLine, errMsg): the node is made if
\* m_sourceElements is set, the four members are set to 0, the node returned.
ParseReturn ==
    /\ parserPc = "return"
    /\ parserCall.kind = "parse"
    /\ parsedNode' = (IF m_sourceElements # Null THEN NodeFromMembers ELSE NoNode)
    /\ m_source' = Null
    /\ m_sourceElements' = Null
    /\ m_varDeclarations' = Null
    /\ m_funcDeclarations' = Null
    /\ parserDone' = TRUE
    /\ parserPc' = "idle"
    /\ UNCHANGED <<m_lastLine, parserCall, errLine, errMsg, parseError, lexError,
                   lexerLineNo, finished, parserCrashed>>
    /\ UNCHANGED notParser

\* reparse after parse(0, 0): ASSERT(m_sourceElements), setData and setLoc
\* on the function body, the four members set to 0.
ReparseReturn ==
    /\ parserPc = "return"
    /\ parserCall.kind = "reparse"
    /\ IF assertionsEnabled /\ m_sourceElements = Null
         THEN /\ parserCrashed' = TRUE
              /\ parserPc' = "crashed"
              /\ UNCHANGED <<parsedNode, m_source, m_sourceElements, m_varDeclarations,
                             m_funcDeclarations, parserDone>>
         ELSE /\ parsedNode' = NodeFromMembers
              /\ m_source' = Null
              /\ m_sourceElements' = Null
              /\ m_varDeclarations' = Null
              /\ m_funcDeclarations' = Null
              /\ parserDone' = TRUE
              /\ parserPc' = "idle"
              /\ UNCHANGED parserCrashed
    /\ UNCHANGED <<m_lastLine, parserCall, errLine, errMsg, parseError, lexError,
                   lexerLineNo, finished>>
    /\ UNCHANGED notParser

\* The singleton after new Parser: the RefPtr members are null, m_source and
\* m_lastLine hold whatever the allocation held.
ParserInit ==
    /\ m_source \in {Null} \cup Sources
    /\ m_sourceElements = Null
    /\ m_varDeclarations = Null
    /\ m_funcDeclarations = Null
    /\ m_lastLine \in {0} \cup LastLines
    /\ parserPc = "idle"
    /\ parserCall = NoParserCall
    /\ parserDone = FALSE
    /\ errLine = CallerErrLine
    /\ errMsg = CallerErrMsg
    /\ parseError = 0
    /\ lexError = FALSE
    /\ lexerLineNo = 0
    /\ finished = NotFinished
    /\ parsedNode = NoNode
    /\ parserCrashed = FALSE

ParserNext ==
    \/ \E source \in Sources, errLinePtr \in BOOLEAN, errMsgPtr \in BOOLEAN :
          ParseCall(source, errLinePtr, errMsgPtr)
    \/ \E source \in Sources : ReparseCall(source)
    \/ ParseEntry
    \/ \E error \in {0, 1}, sawError \in BOOLEAN, line \in LexerLines, called \in BOOLEAN,
          sourceElements \in {Null, ParsedElements}, varStack \in {Null, SomeStack},
          funcStack \in {Null, SomeStack}, lastLine \in LastLines :
          kjsyyparse(error, sawError, line, called, sourceElements, varStack, funcStack,
                     lastLine)
    \/ ParseFinish
    \/ ParseReturn
    \/ ReparseReturn

\* The parser is not used.
ParserQuiet ==
    /\ m_source = Null
    /\ m_sourceElements = Null
    /\ m_varDeclarations = Null
    /\ m_funcDeclarations = Null
    /\ m_lastLine = 0
    /\ parserPc = "idle"
    /\ parserCall = NoParserCall
    /\ parserDone = FALSE
    /\ errLine = CallerErrLine
    /\ errMsg = CallerErrMsg
    /\ parseError = 0
    /\ lexError = FALSE
    /\ lexerLineNo = 0
    /\ finished = NotFinished
    /\ parsedNode = NoNode
    /\ parserCrashed = FALSE

\* No jump target and no profiled range is looked up, in either build.
MapsQuietAnyBuild ==
    /\ assertionsEnabled \in BOOLEAN
    /\ m_outOfLineJumpTargets = << >>
    /\ m_typeProfilerInfoMap = << >>
    /\ mapCall = NoMapCall
    /\ mapResult = NoMapResult
    /\ mapCrashed = FALSE

-----------------------------------------------------------------------------
(* Encoding an entry's line and column, and decoding it again. *)

\* The mode the source-position description lists beside the three that
\* getLineAndColumn switches on: line and column both small, stored inline.
CompactMode == "CompactMode"

Modes == {CompactMode, FatLineMode, FatColumnMode, FatLineAndColumnMode}

\* Lines and columns given to the encoder: the least value, and the greatest
\* value of each inline width with the value one above it.
LineColumnValues ==
    {0, MaxFatLineModeColumn, MaxFatLineModeColumn + 1,
        MaxFatLineModeLine, MaxFatLineModeLine + 1}

\* The pairs a mode's layout has room for.
Fits(mode, line, column) ==
    CASE mode = CompactMode ->
            line <= MaxFatLineModeColumn /\ column <= MaxFatLineModeColumn
      [] mode = FatLineMode ->
            line <= MaxFatLineModeLine /\ column <= MaxFatLineModeColumn
      [] mode = FatColumnMode ->
            line <= MaxFatColumnModeLine /\ column <= MaxFatColumnModeColumn
      [] OTHER -> TRUE

NoDecode == [index |-> 0, pair |-> <<0, 0>>]

\* An entry is given its line and column in the mode chosen for it. In
\* FatLineAndColumnMode the pair is appended to the side table and the
\* entry keeps its index there.
encodeLineAndColumn(mode, line, column) ==
    /\ Len(codecInfo) < MaxEncoded
    /\ Fits(mode, line, column)
    /\ LET fatIndex == Len(m_expressionInfoFatPositions)
           position ==
               CASE mode = CompactMode -> encodeFatLineMode(line, column)
                 [] mode = FatLineMode -> encodeFatLineMode(line, column)
                 [] mode = FatColumnMode -> encodeFatColumnMode(line, column)
                 [] OTHER -> Word(fatIndex)
       IN  /\ codecInfo' = Append(codecInfo, [mode |-> mode, position |-> position])
           /\ m_expressionInfoFatPositions' =
                IF mode = FatLineAndColumnMode
                  THEN Append(m_expressionInfoFatPositions,
                              [line |-> line, column |-> column])
                  ELSE m_expressionInfoFatPositions
    /\ encodedFrom' = Append(encodedFrom, <<line, column>>)
    /\ UNCHANGED decoded
    /\ UNCHANGED notCodec

\* getLineAndColumn is called for entry i (code index i - 1) with line and
\* column holding c before the call.
DecodeEntry(i, c) ==
    /\ i \in 1..Len(codecInfo)
    /\ decoded' = [index |-> i, pair |-> getLineAndColumn(codecInfo[i], c, c)]
    /\ UNCHANGED <<m_expressionInfoFatPositions, codecInfo, encodedFrom>>
    /\ UNCHANGED notCodec

CodecInit ==
    /\ m_expressionInfoFatPositions = << >>
    /\ codecInfo = << >>
    /\ encodedFrom = << >>
    /\ decoded = NoDecode

CodecNext ==
    \/ \E mode \in Modes, line \in LineColumnValues, column \in LineColumnValues :
            encodeLineAndColumn(mode, line, column)
    \/ \E i \in 1..MaxEncoded, c \in CallerValues : DecodeEntry(i, c)

\* No entry is encoded here; the side table holds the sample pairs.
CodecQuiet ==
    /\ m_expressionInfoFatPositions = SampleFatPositions
    /\ codecInfo = << >>
    /\ encodedFrom = << >>
    /\ decoded = NoDecode

-----------------------------------------------------------------------------
(* The specifications. *)

InitRange == RangeInit /\ HandlerQuiet /\ ThreadsQuiet /\ CodecQuiet /\ BlockQuiet /\ MapsQuiet
    /\ ParserQuiet
SpecRange == InitRange /\ [][RangeNext]_vars

\* The search compares instructionOffset and nothing else of an entry: the
\* tables below differ in their offsets, each carrying one payload.
SearchTables ==
    { t \in Tables : \A i \in 1..Len(t) : \A j \in 1..Len(t) :
        t[i].divotPoint = t[j].divotPoint /\ t[i].mode = FatLineMode }

InitRangeFair == InitRange /\ m_expressionInfo \in SearchTables

\* The thread inside the lookup keeps running: an iteration or the exit that
\* can be taken is taken.
SpecRangeFair ==
    InitRangeFair /\ [][RangeNext]_vars /\ WF_vars(RangeLoop) /\ WF_vars(RangeExit)

InitCodec == CodecInit /\ RangeQuiet /\ HandlerQuiet /\ ThreadsQuiet /\ BlockQuiet /\ MapsQuiet
    /\ ParserQuiet
SpecCodec == InitCodec /\ [][CodecNext]_vars

InitHandler == HandlerInit /\ RangeQuiet /\ ThreadsQuiet /\ CodecQuiet /\ BlockQuiet /\ MapsQuiet
    /\ ParserQuiet
SpecHandler == InitHandler /\ [][HandlerNext]_vars

InitThreads == ThreadsInit /\ RangeQuiet /\ HandlerQuiet /\ CodecQuiet /\ BlockQuiet /\ MapsQuiet
    /\ ParserQuiet
SpecThreads == InitThreads /\ [][ThreadsNext]_vars

\* The steps of thread t inside livenessAnalysis.
LivenessStep(t) ==
    \/ LivenessFast(t) \/ SlowLock(t) \/ SlowCheck(t) \/ SlowStore(t)
    \/ SlowUnlock(t) \/ SlowReturn(t)

\* livenessAnalysis calls with collector visits between them; the visits are
\* repeat-visits, which leave the age alone.
ThreadsFairNext ==
    \/ \E t \in Threads : LivenessCall(t)
    \/ \E t \in Threads : LivenessStep(t)
    \/ \E s \in BuilderStores : Publish(s)
    \/ \E t \in Threads : LivenessUse(t)
    \/ \E t \in Threads : VisitCall(t, FALSE)
    \/ \E t \in Threads : VisitLock(t)
    \/ \E t \in Threads : VisitBody(t)
    \/ \E t \in Threads : VisitUnlock(t)

\* Fair scheduling: a thread inside livenessAnalysis that can take its next
\* step, and stays able to, takes it.
SpecThreadsFair ==
    InitThreads /\ [][ThreadsFairNext]_vars /\ \A t \in Threads : WF_vars(LivenessStep(t))

InitMaps ==
    HandlerQuietAnyRareData /\ MapsInit /\ RangeQuiet /\ ThreadsQuiet /\ CodecQuiet /\ BlockQuiet
    /\ ParserQuiet
SpecMaps == InitMaps /\ [][MapsNext]_vars

InitParser ==
    ParserInit /\ MapsQuietAnyBuild /\ RangeQuiet /\ HandlerQuiet /\ ThreadsQuiet /\ CodecQuiet
    /\ BlockQuiet
SpecParser == InitParser /\ [][ParserNext]_vars

InitVisit == ThreadsInit /\ BlockInit /\ RangeQuiet /\ HandlerQuiet /\ CodecQuiet /\ MapsQuiet
    /\ ParserQuiet
SpecVisit == InitVisit /\ [][VisitNext]_vars

-----------------------------------------------------------------------------
(* Claims about the source-position lookup. *)

\* What the lookup must hand back for table entry e.
RangeOf(e) ==
    LET lc == getLineAndColumn(e, 0, 0)
    IN  [divot |-> e.divotPoint, startOffset |-> e.startOffset,
         endOffset |-> e.endOffset, line |-> lc[1], column |-> lc[2]]

CodeIndices == 0..(Len(m_expressionInfo) - 1)

\* The code indices of the entries at or before the queried offset.
AtOrBefore == { i \in CodeIndices : InfoAt(i).instructionOffset <= bytecodeOffset }

\* C1: for a non-empty sorted table and an offset o with an entry at or
\* before it, the finished lookup returns the divot, startOffset, endOffset,
\* line and column of the entry with the greatest instructionOffset <= o
\* (the last such entry of the table).
C1_GreatestAtOrBefore ==
    (rangePc = "done" /\ AtOrBefore # {}) =>
        \E i \in AtOrBefore :
            /\ \A j \in AtOrBefore :
                    j <= i /\ InfoAt(j).instructionOffset <= InfoAt(i).instructionOffset
            /\ out = RangeOf(InfoAt(i))

\* C1's case: entries at offsets 0 and 3 with different data, offset 2 asked:
\* the entry at 0 is returned.
C1_Witness ==
    /\ rangePc = "done"
    /\ Len(m_expressionInfo) = 2
    /\ InfoAt(0).instructionOffset = 0
    /\ InfoAt(1).instructionOffset = 3
    /\ InfoAt(0).divotPoint # InfoAt(1).divotPoint
    /\ bytecodeOffset = 2
    /\ out = RangeOf(InfoAt(0))

\* C4: with an empty table the lookup returns divot, startOffset, endOffset,
\* line and column all 0, never enters the binary search and reads no entry.
C4_EmptyTableDefault ==
    Len(m_expressionInfo) = 0 =>
        /\ rangePc # "loop"
        /\ probed = {}
        /\ rangePc = "done" => out = NoOut

\* C4's case: a finished query of an empty table.
C4_Witness ==
    /\ Len(m_expressionInfo) = 0
    /\ rangePc = "done"
    /\ bytecodeOffset = MaxOffset
    /\ out = NoOut
    /\ probed = {}

\* C10: when every entry of a non-empty table lies after the queried offset,
\* the finished lookup returns the first entry's data, and no read of the
\* query falls outside the table.
C10_ClampToFirst ==
    (Len(m_expressionInfo) > 0 /\ AtOrBefore = {}) =>
        /\ probed \subseteq CodeIndices
        /\ rangePc = "done" => (out = RangeOf(InfoAt(0)) /\ 0 \in probed)

\* C10's case: two entries with different data, both after the queried offset.
C10_Witness ==
    /\ rangePc = "done"
    /\ Len(m_expressionInfo) = 2
    /\ InfoAt(0).instructionOffset = 2
    /\ InfoAt(1).instructionOffset = 3
    /\ InfoAt(0).divotPoint # InfoAt(1).divotPoint
    /\ bytecodeOffset = 1
    /\ out = RangeOf(InfoAt(0))

\* C18: for every table of n >= 1 entries and every offset, the search keeps
\* 0 <= low <= high <= n while it loops, every entry it reads (each mid, and
\* the final low - 1 after the adjustment of low) has its index in 0..n-1,
\* every iteration makes high - low smaller, and the loop is left.
C18_SearchStaysInBoundsAndEnds ==
    /\ [](rangePc = "loop" =>
            (0 <= low /\ low <= high /\ high <= Len(m_expressionInfo)))
    /\ [](probed \subseteq CodeIndices)
    /\ [](rangePc = "done" /\ Len(m_expressionInfo) > 0 =>
            (low - 1 \in probed /\ low - 1 \in CodeIndices))
    /\ [][(rangePc = "loop" /\ rangePc' = "loop") =>
            (high' - low' < high - low /\ high' - low' >= 0)]_vars
    /\ (rangePc = "loop") ~> (rangePc = "done")

\* C18's case: a table of three entries searched to the end by two probes,
\* the last entry being the one returned.
C18_Witness ==
    /\ rangePc = "done"
    /\ Len(m_expressionInfo) = 3
    /\ bytecodeOffset = MaxOffset
    /\ probed = {1, 2}
    /\ low = 3 /\ high = 3

-----------------------------------------------------------------------------
(* Claims about the line/column encoding. *)

DecodedModes == {FatLineMode, FatColumnMode, FatLineAndColumnMode}

-----------------------------------------------------------------------------
(* Claims about the handler lookup. *)

\* Table positions of the candidates of the last lookup.
Candidates ==
    { i \in 1..Len(m_exceptionHandlers) :
        Matches(m_exceptionHandlers[i], handlerIndex, requiredHandler) }

StrictlyWithin(g, h) == Within(g, h) /\ ~Within(h, g)

C9_AbsenceIsNull ==
    /\ ~failFast
    /\ handlerCall # "none" =>
          /\ ~m_rareData => handlerResult = Null
          /\ (m_rareData /\ Candidates = {}) => handlerResult = Null

\* C9's case: handlerForBytecodeIndex on a block without rare data.
C9_Witness ==
    /\ handlerCall = "handlerForBytecodeIndex"
    /\ ~m_rareData
    /\ handlerResult = Null
    /\ ~failFast

\* C9's other case: rare data whose only handler is of the wrong kind.
C9_NoMatchReached ==
    /\ handlerCall = "handlerForIndex"
    /\ m_rareData
    /\ Len(m_exceptionHandlers) = 1
    /\ m_exceptionHandlers[1].start <= handlerIndex
    /\ handlerIndex < m_exceptionHandlers[1].end
    /\ m_exceptionHandlers[1].type = "Finally"
    /\ requiredHandler = CatchHandler
    /\ handlerResult = Null

-----------------------------------------------------------------------------
(* Claims about the liveness cache, the visit and their locks. *)

\* C2: however the threads' calls of livenessAnalysis interleave, at most one
\* BytecodeLivenessAnalysis is constructed, exactly one once a caller has a
\* result, and every caller's reference is to that object.
C2_OneAnalysisForAll ==
    /\ analyses <= 1
    /\ \A t \in Threads :
          result[t] # Null => (analyses = 1 /\ result[t] = m_liveness)
    /\ \A t \in Threads : \A u \in Threads :
          (result[t] # Null /\ result[u] # Null) => result[t] = result[u]

\* C2's case: two calls in progress at once on a fresh block, thread 1 having
\* built the analysis, both holding a reference to it.
C2_Witness ==
    /\ pc[1] = "use" /\ pc[2] = "use"
    /\ local[1] # Null /\ local[2] = Null
    /\ result[1] = local[1] /\ result[2] = local[1]
    /\ analyses = 1

\* C3: the age equals min(K, maxAge) for K the first-visits made, whatever
\* repeat-visits came between, and never exceeds maxAge.
C3_AgeIsMinOfFirstVisits ==
    /\ m_age = Min(firstVisits, maxAge)
    /\ m_age <= maxAge

\* C3's case: more first-visits than maxAge, and a repeat-visit made.
C3_Witness ==
    /\ firstVisits = maxAge + 2
    /\ repeatVisited
    /\ m_age = maxAge
    /\ \A t \in Threads : pc[t] = "idle"

\* The state of the liveness cache.
LivenessState ==
    IF m_liveness # Null THEN "Built"
    ELSE IF \E t \in Threads : pc[t] = "slowStore" THEN "Building"
    ELSE "Unbuilt"

\* C5: the cache moves only Unbuilt -> Building -> Built; once m_liveness is
\* non-null no step makes it null, stores another object in it or constructs
\* another analysis.
C5_BuiltIsTerminal ==
    [][ /\ m_liveness # Null => (m_liveness' = m_liveness /\ analyses' = analyses)
        /\ LivenessState = "Unbuilt" => LivenessState' \in {"Unbuilt", "Building"}
        /\ LivenessState = "Building" => LivenessState' \in {"Building", "Built"}
        /\ LivenessState = "Built" => LivenessState' = "Built" ]_vars

\* C5's case: the analysis built, visits made since, and a later call that
\* went down the slow path about to test m_liveness under the lock.
C5_Witness ==
    /\ m_liveness # Null
    /\ result[1] = m_liveness
    /\ m_age > 0
    /\ pc[2] = "slowCheck"

\* C6: no caller of livenessAnalysis reads an analysis that is not yet
\* complete to it.
C6_NoPartialAnalysisSeen == ~sawPartial

VisitPositions == {"visitBody", "visitUnlock"}
SlowPositions == {"slowCheck", "slowStore", "slowUnlock"}

\* C7: no thread holds the cell lock and m_lock together; a thread waiting
\* for the cell lock waits for a visiting thread and a thread waiting for
\* m_lock waits for a thread in livenessAnalysisSlow, never the other way
\* round; and while any operation is in progress some thread in one can step.
C7_LocksIndependent ==
    /\ \A t \in Threads : ~(cellLock = t /\ m_lock = t)
    /\ \A t \in Threads :
          (pc[t] = "visitLock" /\ ~ENABLED VisitLock(t)) =>
              (cellLock # NoThread /\ pc[cellLock] \in VisitPositions)
    /\ \A t \in Threads :
          (pc[t] = "slowLock" /\ ~ENABLED SlowLock(t)) =>
              (m_lock # NoThread /\ pc[m_lock] \in SlowPositions)
    /\ (\E t \in Threads : pc[t] # "idle") =>
          (\E t \in Threads : pc[t] # "idle" /\ ENABLED ThreadStep(t))

\* C7's case: thread 1 inside the visit holding the cell lock while thread 2
\* holds m_lock with the analysis computed and not yet stored.
C7_Witness ==
    /\ pc[1] = "visitBody" /\ cellLock = 1
    /\ pc[2] = "slowStore" /\ m_lock = 2

-----------------------------------------------------------------------------
(* Claims about the collector visit and the memory accounting. *)

\* The elements of a sequence.
Elements(seq) == { seq[i] : i \in 1..Len(seq) }

\* Metadata bytes plus instruction bytes, none for an absent stream.
ExtraBytes ==
    m_metadata.sizeInBytes +
        (IF m_instructions = NoInstructions THEN 0 ELSE m_instructions.sizeInBytes)

\* C12: a visit reports the metadata table's bytes plus the instruction
\* stream's bytes (zero when the stream is absent); estimatedSize returns
\* the base size plus that amount; so estimatedSize minus the base size is
\* what a visit in the same state reports.
C12_ExtraMemoryAccounting ==
    /\ \A t \in Threads :
         pc[t] = "visitUnlock" => extraMemoryVisited[t] = ExtraBytes
    /\ estimated # NotReported => estimated = BaseEstimatedSize + ExtraBytes
    /\ \A t \in Threads :
         (pc[t] = "visitUnlock" /\ estimated # NotReported) =>
             estimated - BaseEstimatedSize = extraMemoryVisited[t]

\* C12's case: a block without instruction stream has been visited and its
\* size estimated.
C12_Witness ==
    /\ m_instructions = NoInstructions
    /\ estimated # NotReported
    /\ \E t \in Threads :
         pc[t] = "visitUnlock" /\ extraMemoryVisited[t] = m_metadata.sizeInBytes

\* C16: a visit, first-visit or repeat-visit, has appended every function
\* declaration, every function expression and every constant when its body
\* is done; the body changes m_age on first-visits only.
C16_EveryVisitAppendsAll ==
    /\ [](\A t \in Threads :
            pc[t] = "visitUnlock" =>
                /\ Elements(m_functionDecls) \subseteq Elements(appended[t])
                /\ Elements(m_functionExprs) \subseteq Elements(appended[t])
                /\ Elements(m_constantRegisters) \subseteq Elements(appended[t])
                /\ Len(appended[t]) = Len(m_functionDecls) + Len(m_functionExprs)
                                        + Len(m_constantRegisters))
    /\ [][\A t \in Threads :
            (pc[t] = "visitBody" /\ pc'[t] = "visitUnlock" /\ ~isFirstVisit[t]) =>
                m_age' = m_age]_vars

\* C16's case: a repeat-visit of a block with children of all three kinds
\* has appended them, after a first-visit has aged the block.
C16_Witness ==
    /\ m_age = 1
    /\ \E t \in Threads :
         /\ pc[t] = "visitUnlock"
         /\ ~isFirstVisit[t]
         /\ Len(appended[t]) = 5

-----------------------------------------------------------------------------
(* Claims about the jump table and the type-profiler map. *)

JumpCalled == mapCall.op = "outOfLineJumpOffset"
JumpTargetStored == mapCall.offset \in DOMAIN m_outOfLineJumpTargets

\* C13: for an offset in the jump table the call returns the target stored
\* for exactly that offset; for an offset not in the table the call fails
\* fast in a build with assertions, and in a build without them it returns
\* 0 instead of failing.
C13_JumpLookupByBuild ==
    JumpCalled =>
        /\ JumpTargetStored =>
             (~mapCrashed /\ mapResult.returned = m_outOfLineJumpTargets[mapCall.offset])
        /\ (~JumpTargetStored /\ assertionsEnabled) =>
             (mapCrashed /\ mapResult = NoMapResult)
        /\ (~JumpTargetStored /\ ~assertionsEnabled) =>
             (~mapCrashed /\ mapResult.returned = 0)

\* C13 as stated: a stored target is returned, and a call with an offset not
\* in the table fails fast and returns no value.
C13_MissingOffsetFailsFast ==
    JumpCalled =>
        /\ JumpTargetStored =>
             (~mapCrashed /\ mapResult.returned = m_outOfLineJumpTargets[mapCall.offset])
        /\ ~JumpTargetStored => (mapCrashed /\ mapResult = NoMapResult)

\* C13's case: in a build without assertions the call was made with an
\* offset the table does not hold, beside offsets it holds.
C13_Witness ==
    /\ JumpCalled
    /\ ~assertionsEnabled
    /\ ~JumpTargetStored
    /\ m_outOfLineJumpTargets # << >>
    /\ mapResult.returned = 0

TypeProfilerCalled == mapCall.op = "typeProfilerExpressionInfoForBytecodeOffset"
TypeProfilerRangeStored == m_rareData /\ mapCall.offset \in DOMAIN m_typeProfilerInfoMap

\* C14: the call returns true with the stored range exactly when the block
\* has rare data and the map holds the offset; otherwise it returns false
\* with startDivot and endDivot both UINT_MAX; it never fails fast.
C14_TypeProfilerNotFoundIsSentinel ==
    TypeProfilerCalled =>
        /\ ~mapCrashed
        /\ mapResult.returned \in BOOLEAN
        /\ mapResult.returned = TRUE <=> TypeProfilerRangeStored
        /\ TypeProfilerRangeStored =>
             /\ mapResult.startDivot = m_typeProfilerInfoMap[mapCall.offset].m_startDivot
             /\ mapResult.endDivot = m_typeProfilerInfoMap[mapCall.offset].m_endDivot
        /\ ~TypeProfilerRangeStored =>
             /\ mapResult.startDivot = UINT_MAX
             /\ mapResult.endDivot = UINT_MAX

\* C14's case: a block with rare data whose map holds other offsets was
\* asked about one it does not hold.
C14_Witness ==
    /\ TypeProfilerCalled
    /\ m_rareData
    /\ m_typeProfilerInfoMap # << >>
    /\ mapCall.offset \notin DOMAIN m_typeProfilerInfoMap
    /\ mapResult.returned = FALSE

\* The other not-found case of C14 is reached too: a block without rare data.
C14_NoRareDataReached ==
    TypeProfilerCalled /\ ~m_rareData /\ mapResult.startDivot = UINT_MAX

-----------------------------------------------------------------------------
(* Claims about the parser. *)

ErrorSeen == parseError # 0 \/ lexError

ParseCompleted == parserDone /\ parserCall.kind = "parse"

\* C15: when kjsyyparse reports an error or the lexer saw one, a completed
\* parse<> has put the lexer's line number in *errLine and "Parse error" in
\* *errMsg (through the pointers that are non-null) and returns no node,
\* also when didFinishParsing had stored source elements during the parse;
\* when neither error occurred *errLine is -1 and *errMsg is the null string.
C15_ParseErrorSurfaced ==
    ParseCompleted =>
        /\ ErrorSeen =>
             /\ parserCall.errLinePtr => errLine = lexerLineNo
             /\ parserCall.errMsgPtr => errMsg = "Parse error"
             /\ ~parsedNode.made
        /\ ~ErrorSeen =>
             /\ parserCall.errLinePtr => errLine = -1
             /\ parserCall.errMsgPtr => errMsg = NullUString
        /\ ~parserCall.errLinePtr => errLine = CallerErrLine
        /\ ~parserCall.errMsgPtr => errMsg = CallerErrMsg

\* C15's case: the grammar accepted the program and called didFinishParsing
\* with source elements, but the lexer saw an error: no node, line and message.
C15_Witness ==
    /\ ParseCompleted
    /\ parseError = 0 /\ lexError
    /\ finished.called /\ finished.sourceElements = ParsedElements
    /\ parserCall.errLinePtr /\ parserCall.errMsgPtr
    /\ errLine = lexerLineNo /\ errMsg = "Parse error"
    /\ ~parsedNode.made

\* The no-error case of C15 is reached too.
C15_SuccessReached ==
    ParseCompleted /\ ~ErrorSeen /\ errLine = -1 /\ errMsg = NullUString /\ parsedNode.made

C19_FailedReparseReached ==
    /\ parserDone /\ parserCall.kind = "reparse" /\ ErrorSeen
    /\ finished.called /\ finished.varStack = SomeStack
    /\ m_varDeclarations = Null

-----------------------------------------------------------------------------
(* Progress of livenessAnalysis. *)

\* C17: under fair scheduling a thread that has called livenessAnalysis
\* comes to its return with the built analysis, the one m_liveness holds;
\* a thread holding m_lock comes to release it with the analysis stored.
C17_EveryCallReturnsTheAnalysis ==
    /\ \A t \in Threads :
         (pc[t] = "fast") ~>
             (pc[t] = "use" /\ result[t] # Null /\ result[t] = m_liveness)
    /\ \A t \in Threads :
         (m_lock = t) ~> (m_lock # t /\ m_liveness # Null)

\* C17's case: a thread has returned with the analysis that another thread
\* built and has just released m_lock for.
C17_Witness ==
    \E t \in Threads :
        /\ pc[t] = "use"
        /\ result[t] # Null
        /\ result[t] = m_liveness
        /\ local[t] = Null
        /\ \E u \in Threads \ {t} : local[u] = m_liveness /\ pc[u] = "slowReturn"

=============================================================================
